---- MODULE Spec2Model ----
(***************************************************************************)
(* StockFlow inventory page.  Two scripts share one localStorage slot:     *)
(*   "full"  src/unnamed/part_000  (manual CRUD: add / edit / +- / delete) *)
(*   "scan"  src/www/script.js     (scan-only: barcode add, +-, delete)    *)
(* The state is the module-level variables of the scripts, the storage     *)
(* slot, the pending timers and the parts of the DOM the scripts write.    *)
(* JavaScript strings are tuples of one-character strings, so that sort(), *)
(* toLowerCase() and includes() are computed; numbers are tagged values so *)
(* that NaN (parseInt of a non-numeric field) and JSON null are values.    *)
(***************************************************************************)
EXTENDS Integers, Sequences, FiniteSets, TLC

\* ---------------------------------------------------------------- bounds
MaxItems == 2
MaxNow == 1
MaxQty == 2
MaxTimers == 1

\* ------------------------------------------------------ program constants
LOW_STOCK_THRESHOLD == 5

\* outcomes of Math.random().toString(36) kept apart by the model
Rand == {0, 1}

\* ---------------------------------------------------------------- strings
\* the characters the model uses, in UTF-16 code unit order
Alphabet == <<" ", "-", "0", "1", "2", "3", "4", "5", "6", "7", "8", "9",
              "A", "B", "G", "K", "P", "S", "T", "U",
              "a", "b", "c", "d", "e", "g", "k", "l", "n", "o", "p", "r", "s", "t", "u", "w">>

CodeOf ==
  [c \in {Alphabet[i] : i \in DOMAIN Alphabet} |->
     CHOOSE i \in DOMAIN Alphabet : Alphabet[i] = c]
Code(c) == CodeOf[c]

toLowerCase(s) ==
  [i \in DOMAIN s |->
     CASE s[i] = "A" -> "a" [] s[i] = "B" -> "b" [] s[i] = "G" -> "g"
       [] s[i] = "K" -> "k" [] s[i] = "P" -> "p" [] s[i] = "S" -> "s"
       [] s[i] = "T" -> "t" [] s[i] = "U" -> "u" [] OTHER -> s[i]]

\* String.prototype.includes
includes(s, q) ==
  \E k \in 0..(Len(s) - Len(q)) : \A j \in 1..Len(q) : s[k + j] = q[j]

\* comparison of two strings by code units, as Array.prototype.sort() does
RECURSIVE StrLess(_, _)
StrLess(s, t) ==
  IF t = <<>> THEN FALSE
  ELSE IF s = <<>> THEN TRUE
  ELSE IF Code(Head(s)) < Code(Head(t)) THEN TRUE
  ELSE IF Code(Head(s)) > Code(Head(t)) THEN FALSE
  ELSE StrLess(Tail(s), Tail(t))

RECURSIVE InsertSorted(_, _)
InsertSorted(x, seq) ==
  IF seq = <<>> THEN <<x>>
  ELSE IF StrLess(Head(seq), x) \/ Head(seq) = x
       THEN <<Head(seq)>> \o InsertSorted(x, Tail(seq))
       ELSE <<x>> \o seq

\* Array.prototype.sort() with the default comparison
RECURSIVE sort(_)
sort(seq) == IF seq = <<>> THEN <<>> ELSE InsertSorted(Head(seq), sort(Tail(seq)))

\* [...new Set(seq)]: first occurrences, in order
RECURSIVE SetOf(_, _)
SetOf(seq, seen) ==
  IF seq = <<>> THEN <<>>
  ELSE IF Head(seq) \in seen THEN SetOf(Tail(seq), seen)
  ELSE <<Head(seq)>> \o SetOf(Tail(seq), seen \cup {Head(seq)})

\* the decimal digits of a number, as string concatenation writes it
RECURSIVE Digits(_)
Digits(n) ==
  LET d == <<"0", "1", "2", "3", "4", "5", "6", "7", "8", "9">>[(n % 10) + 1]
  IN  IF n < 10 THEN <<d>> ELSE Digits(n \div 10) \o <<d>>

ALL == <<"a", "l", "l">>
NoSelection == <<>>
General == <<"G", "e", "n", "e", "r", "a", "l">>
AutoProduct == <<"A", "u", "t", "o", " ", "P", "r", "o", "d", "u", "c", "t">>
Pcs == <<"p", "c", "s">>
Undefined == <<"u", "n", "d", "e", "f", "i", "n", "e", "d">>

\* ---------------------------------------------------------------- numbers
Num(n) == [t |-> "number", v |-> n]
NaN == [t |-> "NaN", v |-> 0]
JsonNull == [t |-> "null", v |-> 0]

\* a + b on numbers
JsAdd(a, b) == IF a.t = "NaN" \/ b.t = "NaN" THEN NaN ELSE Num(a.v + b.v)

\* Math.max(0, x)
\* Math.max without the lower bound (a variant C1 excludes)
MathMax0NoClamp(x) == x

MathMax0(x) == IF x.t = "NaN" THEN NaN ELSE IF x.v > 0 THEN Num(x.v) ELSE Num(0)

\* a < n
JsLess(a, n) == a.t # "NaN" /\ a.v < n

\* ---------------------------------------------------------------- objects
\* { ...a, ...b }
Spread(a, b) ==
  [f \in (DOMAIN a) \cup (DOMAIN b) |-> IF f \in DOMAIN b THEN b[f] ELSE a[f]]

NoId == <<>>
\* an id no item has
NoSuchId == <<0, 9>>

\* what handleFormSubmit reads from the add/edit form, after trim() and
\* parseInt(_, 10).  The form's markup validates the fields before the submit
\* event fires; a valid draft has a non-negative integer quantity.
Drafts ==
  { [name |-> <<"B", "o", "l", "t">>, sku |-> <<"B", "-", "1">>,
     category |-> <<"T", "o", "o", "l", "s">>, quantity |-> Num(2),
     unit |-> Pcs, notes |-> <<>>] }

\* "SKU-" + Date.now()
Barcode(t) == <<"S", "K", "U", "-">> \o Digits(t)

\* items an earlier session left in the slot: one written by the full script,
\* one written by the scan-only script (no notes, no timestamps)
StoredFull ==
  [id |-> <<0, 2>>, name |-> <<"n", "u", "t">>, sku |-> <<"n", "-", "2">>,
   category |-> <<"p", "a", "r", "t", "s">>, quantity |-> Num(1),
   unit |-> Pcs, notes |-> <<>>, createdAt |-> 0, updatedAt |-> 0]
StoredScan ==
  [id |-> <<0, 3>>, name |-> AutoProduct, sku |-> Barcode(1),
   category |-> General, quantity |-> Num(5), unit |-> Pcs]

WellFormedArrays == { <<StoredFull>>, <<StoredFull, StoredScan>> }

\* the content of the storage slot: absent, text that is not JSON (the empty
\* string is one), the JSON texts "null" and "{}", or the JSON text of an array
Slot(kind, items) == [kind |-> kind, items |-> items]
InitialSlots ==
  { Slot(k, <<>>) : k \in {"absent", "invalid", "null", "object"} }
    \cup { Slot("array", a) : a \in WellFormedArrays }

\* JSON.stringify(inventory): NaN is written as null
\* a serialisation that loses the quantity (a variant C9 excludes)
JSONstringifyLossy(inv) ==
  Slot("array",
       [i \in DOMAIN inv |->
          [f \in DOMAIN inv[i] |-> IF f = "quantity" THEN JsonNull ELSE inv[i][f]]])

JSONstringify(inv) ==
  Slot("array",
       [i \in DOMAIN inv |->
          [f \in DOMAIN inv[i] |->
             IF f = "quantity" /\ inv[i][f].t = "NaN" THEN JsonNull ELSE inv[i][f]]])

\* JSON.parse(text): the value, or "throws"
JSONparse(slot) ==
  CASE slot.kind = "array" -> [kind |-> "array", items |-> slot.items]
    [] slot.kind = "null" -> [kind |-> "null", items |-> <<>>]
    [] slot.kind = "absent" -> [kind |-> "null", items |-> <<>>]
    [] slot.kind = "object" -> [kind |-> "object", items |-> <<>>]
    [] OTHER -> [kind |-> "throws", items |-> <<>>]

\* ------------------------------------------------------------------ state
VARIABLES
  script,          \* which script the page runs: "full" or "scan"
  phase,           \* "start" before DOMContentLoaded, then "ready", or
                   \* "crashed" when init() threw
  now,             \* Date.now()
  storage,         \* localStorage[STORAGE_KEY]
  quota,           \* "free", or "exceeded": localStorage.setItem throws
  invKind,         \* what `inventory` holds: "array", "null" or "object"
  inventory,       \* the items of `inventory` when it is an array
  editingItemId,   \* full script only
  deletingItemId,
  itemModal,       \* itemModal has class "active"
  deleteModal,     \* deleteModal has class "active"
  scanCooldown,    \* scan script only
  cooldownTimers,  \* pending setTimeout(() => scanCooldown = false, 1200)
  scanTimers,      \* pending setTimeout(() => onBarcodeDetected(..), 2000)
  searchInput,     \* elements.searchInput.value
  categoryFilter,  \* elements.categoryFilter.value
  categoryOptions, \* the option values of elements.categoryFilter
  stats,           \* the four stat cards
  table,           \* the rendered rows
  notices,         \* the toasts the last handler showed
  last             \* the store operation the last handler called

vars == <<script, phase, now, storage, quota, invKind, inventory, editingItemId,
          deletingItemId, itemModal, deleteModal, scanCooldown, cooldownTimers,
          scanTimers, searchInput, categoryFilter, categoryOptions, stats,
          table, notices, last>>

view == <<categoryFilter, categoryOptions, stats, table>>
modals == <<editingItemId, deletingItemId, itemModal, deleteModal>>
timers == <<scanCooldown, cooldownTimers, scanTimers>>

\* ----------------------------------------------------------- derived views
Map(seq, f) == [i \in DOMAIN seq |-> seq[i][f]]

\* full script: [...new Set(inventory.map(item => item.category))].sort()
getCategoriesFull(inv) == sort(SetOf(Map(inv, "category"), {}))
\* scan script: [...new Set(inventory.map(i => i.category))]
getCategoriesScan(inv) == SetOf(Map(inv, "category"), {})
getCategories(inv) ==
  IF script = "full" THEN getCategoriesFull(inv) ELSE getCategoriesScan(inv)

RECURSIVE Sum(_)
Sum(qs) == IF qs = <<>> THEN Num(0) ELSE JsAdd(Sum(SubSeq(qs, 1, Len(qs) - 1)), qs[Len(qs)])

\* the text a number becomes when it is assigned to textContent
NumText(q) ==
  IF q.t = "NaN" THEN <<"N", "a", "N">>
  ELSE IF q.v < 0 THEN <<"-">> \o Digits(0 - q.v) ELSE Digits(q.v)

\* the stat cards before any script wrote them
Blank == [totalItems |-> <<>>, totalQuantity |-> <<>>, totalCategories |-> <<>>,
          lowStockCount |-> <<>>]

\* the threshold counted as low stock too (a variant C12 excludes)
lowStockInclusive(inv) ==
  Cardinality({i \in DOMAIN inv :
                 inv[i].quantity.t # "NaN" /\ inv[i].quantity.v <= LOW_STOCK_THRESHOLD})

lowStock(inv) ==
  Cardinality({i \in DOMAIN inv : JsLess(inv[i].quantity, LOW_STOCK_THRESHOLD)})

updateStats(inv) ==
  [totalItems |-> Digits(Len(inv)),
   totalQuantity |-> NumText(Sum(Map(inv, "quantity"))),
   totalCategories |-> Digits(Len(getCategories(inv))),
   lowStockCount |-> Digits(lowStock(inv))]

\* the value of the <select> after updateCategoryFilter()
updateCategoryFilterFull(inv, current) ==
  IF \E i \in DOMAIN getCategories(inv) : getCategories(inv)[i] = current
  THEN current ELSE ALL
updateCategoryFilterScan(inv, current) ==
  IF current = ALL \/ \E i \in DOMAIN getCategories(inv) : getCategories(inv)[i] = current
  THEN current ELSE NoSelection
updateCategoryFilter(inv, current) ==
  IF script = "full" THEN updateCategoryFilterFull(inv, current)
  ELSE updateCategoryFilterScan(inv, current)

matchesFull(item, q, cat) ==
  /\ \/ includes(toLowerCase(item.name), q)
     \/ includes(toLowerCase(item.sku), q)
  /\ (cat = ALL \/ item.category = cat)
matchesScan(item, q, cat) ==
  /\ \/ includes(toLowerCase(item.name), q)
     \/ includes(item.sku, q)
  /\ (cat = ALL \/ item.category = cat)

RECURSIVE Filter(_, _, _)
Filter(inv, q, cat) ==
  IF inv = <<>> THEN <<>>
  ELSE (IF (IF script = "full" THEN matchesFull(Head(inv), q, cat)
            ELSE matchesScan(Head(inv), q, cat))
        THEN <<Head(inv)>> ELSE <<>>) \o Filter(Tail(inv), q, cat)

\* the rows renderTable() writes
renderTable(inv, search, cat) == Filter(inv, toLowerCase(search), cat)

\* ------------------------------------------------------------------- init
\* op: the handler; d: the delta it was given; wrote: "ok" or "failed" when
\* it called localStorage.setItem, "none" when it did not
Op(name, d, wrote) == [op |-> name, d |-> d, wrote |-> wrote]

Init ==
  /\ script \in {"full", "scan"}
  /\ phase = "start"
  /\ now = 0
  /\ storage \in InitialSlots
  /\ quota \in {"free", "exceeded"}
  /\ invKind = "array"
  /\ inventory = <<>>
  /\ editingItemId = NoId
  /\ deletingItemId = NoId
  /\ itemModal = FALSE
  /\ deleteModal = FALSE
  /\ scanCooldown = FALSE
  /\ cooldownTimers = 0
  /\ scanTimers = 0
  /\ searchInput = <<>>
  /\ categoryFilter = ALL
  /\ categoryOptions = <<ALL>>
  /\ stats = Blank
  /\ table = <<>>
  /\ notices = <<>>
  /\ last = Op("none", 0, "none")

\* full script loadInventory(): the value `inventory` gets
loadInventoryFull(slot) ==
  IF slot.kind = "absent" THEN [kind |-> "array", items |-> <<>>]
  ELSE IF JSONparse(slot).kind = "throws" THEN [kind |-> "array", items |-> <<>>]
  ELSE JSONparse(slot)

\* scan script loadInventory(): JSON.parse(..) || [], with nothing caught
loadInventoryScan(slot) ==
  IF JSONparse(slot).kind = "null" THEN [kind |-> "array", items |-> <<>>]
  ELSE JSONparse(slot)

loadInventory(slot) ==
  IF script = "full" THEN loadInventoryFull(slot) ELSE loadInventoryScan(slot)

\* init(): loadInventory, (listeners,) updateStats, updateCategoryFilter,
\* renderTable.  A throw in loadInventory leaves `inventory` as declared; a
\* non-array value makes updateStats throw.
InitApp ==
  /\ phase = "start"
  /\ LET v == loadInventory(storage) IN
       /\ invKind' = IF v.kind = "throws" THEN "array" ELSE v.kind
       /\ inventory' = v.items
       /\ IF v.kind = "array"
          THEN /\ phase' = "ready"
               /\ stats' = updateStats(v.items)
               /\ categoryOptions' = <<ALL>> \o getCategories(v.items)
               /\ categoryFilter' = updateCategoryFilter(v.items, categoryFilter)
               /\ table' = renderTable(v.items, searchInput, categoryFilter')
          ELSE /\ phase' = "crashed"
               /\ stats' = IF script = "scan" /\ v.kind = "object"
                            THEN [stats EXCEPT !.totalItems = Undefined]
                            ELSE stats
               /\ UNCHANGED <<categoryFilter, categoryOptions, table>>
  /\ last' = Op("init", 0, "none")
  /\ notices' = <<>>
  /\ UNCHANGED <<script, quota, now, storage, modals, timers, searchInput>>

\* the clock advances
Tick ==
  /\ now < MaxNow
  /\ now' = now + 1
  /\ UNCHANGED <<script, phase, quota, storage, invKind, inventory, modals, timers,
                 searchInput, view, notices, last>>

\* space is freed in the origin: later writes succeed
FreeSpace ==
  /\ quota = "exceeded"
  /\ quota' = "free"
  /\ UNCHANGED <<script, phase, now, storage, invKind, inventory, modals, timers,
                 searchInput, view, notices, last>>

\* ------------------------------------------------------- store operations
\* generateId(): `item_${Date.now()}_${Math.random().toString(36)...}`
generateId(t, r) == <<t, r>>

\* getTimestamp(): new Date().toISOString()
getTimestamp(t) == t

\* Array.prototype.findIndex(item => item.id === id): 0 stands for -1
findIndex(inv, id) ==
  IF \E i \in DOMAIN inv : inv[i].id = id
  THEN CHOOSE i \in DOMAIN inv : inv[i].id = id /\ \A j \in 1..(i - 1) : inv[j].id # id
  ELSE 0

\* Array.prototype.find(i => i.sku === barcode): 0 stands for undefined
findSku(inv, barcode) ==
  IF \E i \in DOMAIN inv : inv[i].sku = barcode
  THEN CHOOSE i \in DOMAIN inv : inv[i].sku = barcode /\ \A j \in 1..(i - 1) : inv[j].sku # barcode
  ELSE 0

\* the new item appended with push (a variant C4 excludes)
addItemPush(inv, itemData, id, t) ==
  inv \o <<Spread(itemData, [id |-> id, createdAt |-> getTimestamp(t),
                             updatedAt |-> getTimestamp(t)])>>

\* addItem: { ...itemData, id, createdAt, updatedAt } goes to the front
addItem(inv, itemData, id, t) ==
  <<Spread(itemData, [id |-> id, createdAt |-> getTimestamp(t),
                      updatedAt |-> getTimestamp(t)])>> \o inv

\* updateItem: { ...inventory[index], ...updates, updatedAt } in place
updateItem(inv, id, updates, t) ==
  IF findIndex(inv, id) = 0 THEN inv
  ELSE [inv EXCEPT ![findIndex(inv, id)] =
          Spread(Spread(@, updates), [updatedAt |-> getTimestamp(t)])]

\* the delta applied with the wrong sign (a variant C2 excludes)
newQuantitySubtract(q, delta) == MathMax0(JsAdd(q, Num(0 - delta)))

\* updateQuantity: Math.max(0, item.quantity + delta)
newQuantity(q, delta) == MathMax0(JsAdd(q, Num(delta)))

\* updateQuantity(id, delta) of the full script
updateQuantity(inv, id, delta, t) ==
  IF findIndex(inv, id) = 0 THEN inv
  ELSE updateItem(inv, id,
                  [quantity |-> newQuantity(inv[findIndex(inv, id)].quantity, delta)], t)

\* changeQty(id, d) of the scan script: item.quantity = Math.max(0, ..)
changeQty(inv, id, d) ==
  IF findIndex(inv, id) = 0 THEN inv
  ELSE [inv EXCEPT ![findIndex(inv, id)].quantity = newQuantity(@, d)]

\* the filter with its test inverted (a variant C6 excludes)
deleteItemInverted(inv, id) == SelectSeq(inv, LAMBDA item : item.id = id)

\* inventory.filter(item => item.id !== id)
deleteItem(inv, id) == SelectSeq(inv, LAMBDA item : item.id # id)

\* onBarcodeDetected: item.quantity += 1, or a new item at the front
scanItem(inv, barcode, id) ==
  IF findSku(inv, barcode) # 0
  THEN [inv EXCEPT ![findSku(inv, barcode)].quantity = JsAdd(@, Num(1))]
  ELSE <<[id |-> id, name |-> AutoProduct, sku |-> barcode, category |-> General,
          quantity |-> Num(1), unit |-> Pcs]>> \o inv

\* localStorage.setItem(STORAGE_KEY, JSON.stringify(inventory)): the slot after
\* the call; the write fails (quota) when ok is FALSE
setItem(inv, ok) == IF ok THEN JSONstringify(inv) ELSE storage

\* whether localStorage.setItem succeeds: it throws while the origin's quota
\* is exceeded
WriteOk == quota = "free"

Written(ok) == IF ok THEN "ok" ELSE "failed"

\* full script: saveInventory (the failure is caught and shown), updateStats,
\* updateCategoryFilter, renderTable, showToast
CommitFull(inv, ok, toast) ==
  /\ inventory' = inv
  /\ storage' = setItem(inv, ok)
  /\ stats' = updateStats(inv)
  /\ categoryOptions' = <<ALL>> \o getCategories(inv)
  /\ categoryFilter' = updateCategoryFilter(inv, categoryFilter)
  /\ table' = renderTable(inv, searchInput, categoryFilter')
  /\ notices' = (IF ok THEN <<>> ELSE <<"Failed to save data">>) \o <<toast>>

\* scan script: saveInventory throws when the write fails and the handler
\* ends there; otherwise updateStats, (updateCategoryFilter,) renderTable
CommitScan(inv, ok, withFilter, toast) ==
  /\ inventory' = inv
  /\ storage' = setItem(inv, ok)
  /\ IF ok
     THEN /\ stats' = updateStats(inv)
          /\ IF withFilter
             THEN /\ categoryOptions' = <<ALL>> \o getCategories(inv)
                  /\ categoryFilter' = updateCategoryFilter(inv, categoryFilter)
             ELSE UNCHANGED <<categoryOptions, categoryFilter>>
          /\ table' = renderTable(inv, searchInput, categoryFilter')
          /\ notices' = toast
     ELSE /\ UNCHANGED view
          /\ notices' = <<>>

\* a handler that ends without touching the store or the page
Quiet == /\ notices' = <<>>
         /\ UNCHANGED <<storage, invKind, inventory, view>>

\* a handler that calls no store operation
Idle == /\ last' = Op("none", 0, "none")
        /\ Quiet

\* the page under a modal: both modals are full-screen overlays (a click on
\* the overlay itself closes the modal), so the buttons of the page are
\* reached only while no modal is shown
PageReachable == ~itemModal /\ ~deleteModal

\* the ids of the rendered rows: the buttons a row carries
RowIds == {table[i].id : i \in DOMAIN table}

\* the ids the quantity operations are called with: the rows' and one no
\* item has
Targets == RowIds \cup {NoSuchId}

\* ------------------------------------------------- full script: the modals
\* the two declarations of openAddModal: what editingItemId becomes
openAddModalFirst(editing) == NoId
openAddModalSecond(editing) == editing
\* function declarations are hoisted: the later declaration is the one bound
openAddModal(editing) == openAddModalSecond(editing)

closeItemModalFirst(editing) == NoId
closeItemModalSecond(editing) == editing
closeItemModal(editing) == closeItemModalSecond(editing)

\* addItemBtn click
ClickAddItemBtnFull ==
  /\ script = "full" /\ phase # "start" /\ PageReachable
  /\ itemModal' = TRUE
  /\ editingItemId' = openAddModal(editingItemId)
  /\ Idle
  /\ UNCHANGED <<script, phase, quota, now, deletingItemId, deleteModal, timers, searchInput>>

\* an edit button of a row
OpenEditModal(id) ==
  /\ script = "full" /\ phase = "ready" /\ PageReachable
  /\ IF findIndex(inventory, id) = 0
     THEN UNCHANGED <<editingItemId, itemModal>>
     ELSE editingItemId' = id /\ itemModal' = TRUE
  /\ Idle
  /\ UNCHANGED <<script, phase, quota, now, deletingItemId, deleteModal, timers, searchInput>>

\* modalClose, cancelBtn, a click on the overlay
CloseItemModalFull ==
  /\ script = "full" /\ phase # "start" /\ itemModal
  /\ itemModal' = FALSE
  /\ editingItemId' = closeItemModal(editingItemId)
  /\ Idle
  /\ UNCHANGED <<script, phase, quota, now, deletingItemId, deleteModal, timers, searchInput>>

\* the Escape key: closeItemModal(); closeDeleteModal()
PressEscape ==
  /\ script = "full" /\ phase # "start"
  /\ itemModal' = FALSE
  /\ editingItemId' = closeItemModal(editingItemId)
  /\ deleteModal' = FALSE
  /\ deletingItemId' = NoId
  /\ Idle
  /\ UNCHANGED <<script, phase, quota, now, timers, searchInput>>

\* handleFormSubmit: updateItem(editingItemId, itemData) when editingItemId is
\* set, addItem(itemData) otherwise, then closeItemModal().  With `inventory`
\* not an array the store call throws and nothing else runs.
HandleFormSubmit(itemData, r) ==
  /\ script = "full" /\ phase # "start" /\ itemModal
  /\ IF invKind # "array"
     THEN /\ last' = Op("throws", 0, "none")
          /\ Quiet
          /\ UNCHANGED <<editingItemId, itemModal>>
     ELSE /\ IF editingItemId # NoId
             THEN IF findIndex(inventory, editingItemId) = 0
                  THEN /\ last' = Op("updateItem", 0, "none")
                       /\ Quiet
                  ELSE /\ last' = Op("updateItem", 0, Written(WriteOk))
                       /\ CommitFull(updateItem(inventory, editingItemId, itemData, now),
                                     WriteOk, "updated successfully")
                       /\ UNCHANGED invKind
             ELSE /\ Len(inventory) < MaxItems
                  /\ last' = Op("addItem", 0, Written(WriteOk))
                  /\ CommitFull(addItem(inventory, itemData, generateId(now, r), now),
                                WriteOk, "added successfully")
                  /\ UNCHANGED invKind
          /\ itemModal' = FALSE
          /\ editingItemId' = closeItemModal(editingItemId)
  /\ UNCHANGED <<script, phase, quota, now, deletingItemId, deleteModal, timers, searchInput>>

\* a + or - button of a row: updateQuantity(id, delta)
UpdateQuantity(id, delta) ==
  /\ script = "full" /\ phase = "ready" /\ PageReachable
  /\ IF findIndex(inventory, id) = 0
     THEN /\ last' = Op("updateQuantity", delta, "none")
          /\ Quiet
     ELSE /\ delta > 0 => JsLess(inventory[findIndex(inventory, id)].quantity, MaxQty)
          /\ last' = Op("updateQuantity", delta, Written(WriteOk))
          /\ CommitFull(updateQuantity(inventory, id, delta, now), WriteOk, "updated successfully")
          /\ UNCHANGED invKind
  /\ UNCHANGED <<script, phase, quota, now, modals, timers, searchInput>>

\* a delete button of a row
OpenDeleteModalFull(id) ==
  /\ script = "full" /\ phase = "ready" /\ PageReachable
  /\ IF findIndex(inventory, id) = 0
     THEN UNCHANGED <<deletingItemId, deleteModal>>
     ELSE deletingItemId' = id /\ deleteModal' = TRUE
  /\ Idle
  /\ UNCHANGED <<script, phase, quota, now, editingItemId, itemModal, timers, searchInput>>

\* deleteModalClose, cancelDeleteBtn, a click on the overlay (both scripts)
CloseDeleteModal ==
  /\ phase # "start" /\ deleteModal
  /\ deleteModal' = FALSE
  /\ deletingItemId' = NoId
  /\ Idle
  /\ UNCHANGED <<script, phase, quota, now, editingItemId, itemModal, timers, searchInput>>

\* confirmDeleteBtn: if (deletingItemId) { deleteItem(..); closeDeleteModal() }
ConfirmDeleteFull ==
  /\ script = "full" /\ phase = "ready" /\ deleteModal
  /\ IF deletingItemId = NoId
     THEN /\ last' = Op("deleteItem", 0, "none")
          /\ Quiet
          /\ UNCHANGED <<deletingItemId, deleteModal>>
     ELSE /\ IF findIndex(inventory, deletingItemId) = 0
             THEN /\ last' = Op("deleteItem", 0, "none")
                  /\ Quiet
             ELSE /\ last' = Op("deleteItem", 0, Written(WriteOk))
                  /\ CommitFull(deleteItem(inventory, deletingItemId), WriteOk, "deleted")
                  /\ UNCHANGED invKind
          /\ deleteModal' = FALSE
          /\ deletingItemId' = NoId
  /\ UNCHANGED <<script, phase, quota, now, editingItemId, itemModal, timers, searchInput>>

\* -------------------------------------------------- scan script: handlers
\* addItemBtn: openAddModal() shows the modal, starts the camera and arms the
\* simulated scan
ClickAddItemBtnScan ==
  /\ script = "scan" /\ phase # "start" /\ PageReachable
  /\ scanTimers < MaxTimers
  /\ itemModal' = TRUE
  /\ scanTimers' = scanTimers + 1
  /\ Idle
  /\ UNCHANGED <<script, phase, quota, now, editingItemId, deletingItemId, deleteModal,
                 scanCooldown, cooldownTimers, searchInput>>

\* modalClose: closeItemModal()
CloseItemModalScan ==
  /\ script = "scan" /\ phase # "start" /\ itemModal
  /\ itemModal' = FALSE
  /\ Idle
  /\ UNCHANGED <<script, phase, quota, now, editingItemId, deletingItemId, deleteModal,
                 timers, searchInput>>

\* onBarcodeDetected(barcode), run by the simulated-scan timer
onBarcodeDetected(barcode, r) ==
  IF scanCooldown
  THEN /\ last' = Op("scanIgnored", 0, "none")
       /\ Quiet
       /\ UNCHANGED <<scanCooldown, cooldownTimers>>
  ELSE /\ scanCooldown' = TRUE
       /\ IF invKind # "array"
          THEN /\ last' = Op("throws", 0, "none")
               /\ Quiet
               /\ UNCHANGED cooldownTimers
          ELSE /\ IF findSku(inventory, barcode) # 0
                  THEN JsLess(inventory[findSku(inventory, barcode)].quantity, MaxQty)
                  ELSE Len(inventory) < MaxItems
               /\ last' = Op("scan", IF findSku(inventory, barcode) # 0 THEN 1 ELSE 0,
                             Written(WriteOk))
               /\ CommitScan(scanItem(inventory, barcode, generateId(now, r)), WriteOk, TRUE,
                             <<"Item added">>)
               /\ cooldownTimers' = IF WriteOk THEN cooldownTimers + 1 ELSE cooldownTimers
               /\ UNCHANGED invKind

ScanTimerFires(r) ==
  /\ script = "scan" /\ scanTimers > 0
  /\ scanTimers' = scanTimers - 1
  /\ onBarcodeDetected(Barcode(now), r)
  /\ UNCHANGED <<script, phase, quota, now, modals, searchInput>>

\* setTimeout(() => scanCooldown = false, 1200) fires
CooldownTimerFires ==
  /\ script = "scan" /\ cooldownTimers > 0
  /\ cooldownTimers' = cooldownTimers - 1
  /\ scanCooldown' = FALSE
  /\ Idle
  /\ UNCHANGED <<script, phase, quota, now, modals, scanTimers, searchInput>>

\* a + or - button of a row: changeQty(id, d)
ChangeQty(id, d) ==
  /\ script = "scan" /\ phase = "ready" /\ PageReachable
  /\ IF findIndex(inventory, id) = 0
     THEN /\ last' = Op("changeQty", d, "none")
          /\ Quiet
     ELSE /\ d > 0 => JsLess(inventory[findIndex(inventory, id)].quantity, MaxQty)
          /\ last' = Op("changeQty", d, Written(WriteOk))
          /\ CommitScan(changeQty(inventory, id, d), WriteOk, FALSE, <<>>)
          /\ UNCHANGED invKind
  /\ UNCHANGED <<script, phase, quota, now, modals, timers, searchInput>>

\* a delete button of a row: openDeleteModal(id)
OpenDeleteModalScan(id) ==
  /\ script = "scan" /\ phase = "ready" /\ PageReachable
  /\ deletingItemId' = id
  /\ deleteModal' = TRUE
  /\ Idle
  /\ UNCHANGED <<script, phase, quota, now, editingItemId, itemModal, timers, searchInput>>

\* confirmDeleteBtn.onclick: filter, saveInventory, updateStats,
\* updateCategoryFilter, renderTable, closeDeleteModal; a failed write throws
\* and leaves the modal open
ConfirmDeleteScan ==
  /\ script = "scan" /\ phase = "ready" /\ deleteModal
  /\ last' = Op("deleteItem", 0, Written(WriteOk))
  /\ CommitScan(deleteItem(inventory, deletingItemId), WriteOk, TRUE, <<>>)
  /\ IF WriteOk
     THEN deleteModal' = FALSE /\ deletingItemId' = NoId
     ELSE UNCHANGED <<deleteModal, deletingItemId>>
  /\ UNCHANGED <<script, phase, quota, now, invKind, editingItemId, itemModal, timers,
                 searchInput>>

\* --------------------------------------------------- search box and filter
\* texts typed into the search box
Queries == {<<>>, <<"N">>, <<"n", "u">>, <<"s", "k", "u">>, <<"S", "K", "U">>,
            <<"-", "2">>, <<"b">>}

\* the listeners are attached by initEventListeners (full script, before
\* updateStats can throw) or at the end of init (scan script)
Listening == IF script = "full" THEN phase # "start" ELSE phase = "ready"

\* typing in the search box: renderTable
SetSearch(q) ==
  /\ phase # "start"
  /\ q # searchInput
  /\ searchInput' = q
  /\ table' = IF Listening /\ invKind = "array"
              THEN renderTable(inventory, q, categoryFilter) ELSE table
  /\ last' = Op("search", 0, "none")
  /\ notices' = <<>>
  /\ UNCHANGED <<script, phase, quota, now, storage, invKind, inventory, modals, timers,
                 categoryFilter, categoryOptions, stats>>

\* choosing an option of the category filter: renderTable
SetCategoryFilter(c) ==
  /\ phase # "start"
  /\ c # categoryFilter
  /\ \E i \in DOMAIN categoryOptions : categoryOptions[i] = c
  /\ categoryFilter' = c
  /\ table' = IF Listening /\ invKind = "array"
              THEN renderTable(inventory, searchInput, c) ELSE table
  /\ last' = Op("filter", 0, "none")
  /\ notices' = <<>>
  /\ UNCHANGED <<script, phase, quota, now, storage, invKind, inventory, modals, timers,
                 searchInput, categoryOptions, stats>>

\* the deltas the quantity operations are called with: the buttons pass 1
\* and -1
Deltas == {-5, -1, 1}

Next ==
  \/ InitApp
  \/ Tick
  \/ FreeSpace
  \/ ClickAddItemBtnFull
  \/ \E id \in RowIds : OpenEditModal(id)
  \/ CloseItemModalFull
  \/ PressEscape
  \/ \E itemData \in Drafts, r \in Rand : HandleFormSubmit(itemData, r)
  \/ \E id \in Targets, delta \in Deltas : UpdateQuantity(id, delta)
  \/ \E id \in RowIds : OpenDeleteModalFull(id)
  \/ CloseDeleteModal
  \/ ConfirmDeleteFull
  \/ ClickAddItemBtnScan
  \/ CloseItemModalScan
  \/ \E r \in Rand : ScanTimerFires(r)
  \/ CooldownTimerFires
  \/ \E id \in Targets, d \in Deltas : ChangeQty(id, d)
  \/ \E id \in RowIds : OpenDeleteModalScan(id)
  \/ ConfirmDeleteScan

Spec == Init /\ [][Next]_vars

\* the page after load with only the search box and the category filter in
\* use
NextFilter ==
  \/ InitApp
  \/ \E q \in Queries : SetSearch(q)
  \/ \E c \in {ALL, General, StoredFull.category} : SetCategoryFilter(c)

SpecFilter == Init /\ [][NextFilter]_vars

\* the scan script's add modal and its timers; a timer that was set fires
NextScanning ==
  \/ InitApp
  \/ Tick
  \/ FreeSpace
  \/ ClickAddItemBtnScan
  \/ CloseItemModalScan
  \/ \E r \in Rand : ScanTimerFires(r)
  \/ CooldownTimerFires

SpecScanning ==
  Init /\ [][NextScanning]_vars /\ WF_vars(CooldownTimerFires)

\* ================================================================= claims
\* the first index whose item has this id (0 when there is none)
FirstWithId(inv, id) ==
  IF \E i \in DOMAIN inv : inv[i].id = id
  THEN CHOOSE i \in DOMAIN inv : inv[i].id = id /\ \A j \in DOMAIN inv : inv[j].id = id => i <= j
  ELSE 0

\* a is b with some elements left out, the rest in b's order
RECURSIVE IsSubSeq(_, _)
IsSubSeq(a, b) ==
  \/ a = <<>>
  \/ /\ b # <<>>
     /\ \/ Head(a) = Head(b) /\ IsSubSeq(Tail(a), Tail(b))
        \/ IsSubSeq(a, Tail(b))

IsNat(q) == q.t = "number" /\ q.v >= 0

\* the steps of the store operations
AddStep ==
  /\ invKind = "array" /\ editingItemId = NoId
  /\ \E itemData \in Drafts, r \in Rand : HandleFormSubmit(itemData, r)
UpdateStep ==
  /\ invKind = "array" /\ editingItemId # NoId
  /\ \E itemData \in Drafts, r \in Rand : HandleFormSubmit(itemData, r)
AdjustStep(id, d) == UpdateQuantity(id, d) \/ ChangeQty(id, d)
RemoveStep == (ConfirmDeleteFull /\ deletingItemId # NoId) \/ ConfirmDeleteScan

C2_AdjustQuantity ==
  [][\A id \in Targets, d \in Deltas :
       (AdjustStep(id, d) /\ FirstWithId(inventory, id) # 0) =>
         LET i == FirstWithId(inventory, id)
             q == inventory[i].quantity.v
         IN  /\ Len(inventory') = Len(inventory)
             /\ inventory'[i].quantity = Num(IF q + d > 0 THEN q + d ELSE 0)
             /\ \A j \in DOMAIN inventory :
                  j # i => inventory'[j].quantity = inventory[j].quantity]_vars

\* updateQuantity(id, -5) has run and the item is at 0
C2_Witness ==
  /\ last.op = "updateQuantity" /\ last.d = -5 /\ last.wrote # "none"
  /\ \E i \in DOMAIN inventory : inventory[i].quantity = Num(0)

\* C3: no two items of the collection have the same id.
C3_UniqueIds ==
  \A i, j \in DOMAIN inventory : i # j => inventory[i].id # inventory[j].id

\* C4: add puts the new item at index 0 in front of the others; update and
\* adjustQuantity keep every item at its index; remove keeps the order of the
\* items that remain.
C4_Ordering ==
  [][/\ AddStep => /\ Len(inventory') = Len(inventory) + 1
                   /\ Tail(inventory') = inventory
     /\ (UpdateStep \/ \E id \in Targets, d \in Deltas : AdjustStep(id, d)) =>
          /\ Len(inventory') = Len(inventory)
          /\ \A i \in DOMAIN inventory : inventory'[i].id = inventory[i].id
     /\ RemoveStep => IsSubSeq(inventory', inventory)]_vars

\* an add has run on a collection that already held an item
C4_Witness ==
  /\ last.op = "addItem" /\ last.wrote = "ok"
  /\ Len(inventory) = 2

\* C5: updateItem / updateQuantity / changeQty with an id no item has change
\* neither the collection nor the stored content and show nothing; with an
\* id an item has they change that record only, keep its id and set its
\* updatedAt to the time of the call.
C5_UpdateSemantics ==
  [][/\ \A id \in Targets, d \in Deltas :
          AdjustStep(id, d) =>
            LET i == FirstWithId(inventory, id)
            IN  IF i = 0
                THEN inventory' = inventory /\ storage' = storage /\ notices' = <<>>
                ELSE /\ Len(inventory') = Len(inventory)
                     /\ inventory'[i].id = id
                     /\ "updatedAt" \in DOMAIN inventory'[i]
                     /\ inventory'[i].updatedAt = getTimestamp(now)
                     /\ \A j \in DOMAIN inventory : j # i => inventory'[j] = inventory[j]
     /\ UpdateStep =>
          LET i == FirstWithId(inventory, editingItemId)
          IN  IF i = 0
              THEN inventory' = inventory /\ storage' = storage /\ notices' = <<>>
              ELSE /\ Len(inventory') = Len(inventory)
                   /\ inventory'[i].id = editingItemId
                   /\ "updatedAt" \in DOMAIN inventory'[i]
                   /\ inventory'[i].updatedAt = getTimestamp(now)
                   /\ \A j \in DOMAIN inventory : j # i => inventory'[j] = inventory[j]]_vars

\* C6: after the confirmed delete of id no item has that id, the other items
\* are all there in their order, and a delete of an id no item has leaves the
\* collection as it was.
C6_Remove ==
  [][RemoveStep =>
       /\ \A i \in DOMAIN inventory' : inventory'[i].id # deletingItemId
       /\ IsSubSeq(inventory', inventory)
       /\ Len(inventory') =
            Len(inventory)
              - Cardinality({i \in DOMAIN inventory : inventory[i].id = deletingItemId})
       /\ (FirstWithId(inventory, deletingItemId) = 0 => inventory' = inventory)]_vars

\* a delete has run and another item is still there
C6_Witness ==
  /\ last.op = "deleteItem" /\ last.wrote = "ok"
  /\ Len(inventory) = 1

\* C7: whatever the slot holds, init's load does not throw, `inventory` is an
\* array, and it is empty when the slot does not hold an item array.
C7_LoadDegrades ==
  last.op = "init" =>
    /\ phase = "ready"
    /\ invKind = "array"
    /\ (storage.kind # "array" => inventory = <<>>)

\* C8: when the write of a mutating operation fails, a notice is shown and
\* the stats, the category options and the table are those of the in-memory
\* collection.
C8_WriteFailureHandled ==
  last.wrote = "failed" =>
    /\ \E i \in DOMAIN notices : notices[i] = "Failed to save data"
    /\ stats = updateStats(inventory)
    /\ categoryOptions = <<ALL>> \o getCategories(inventory)
    /\ table = renderTable(inventory, searchInput, categoryFilter)

C10_CategoriesSorted ==
  invKind = "array" =>
    LET c == getCategories(inventory)
    IN  /\ {c[i] : i \in DOMAIN c} = {inventory[i].category : i \in DOMAIN inventory}
        /\ \A i, j \in DOMAIN c : i < j => StrLess(c[i], c[j])

\* s contains q when letter case is ignored in both
ContainsIgnoringCase(s, q) == includes(toLowerCase(s), toLowerCase(q))

\* C11: after the search box or the category filter was used, the table
\* holds exactly the items whose name or sku contains the search text
\* ignoring letter case and whose category is the selected one (any category
\* for "all"), in collection order.
C11_FilterExact ==
  (last.op \in {"search", "filter"} /\ Listening /\ invKind = "array") =>
    table = SelectSeq(inventory,
                      LAMBDA item :
                        /\ \/ ContainsIgnoringCase(item.name, searchInput)
                           \/ ContainsIgnoringCase(item.sku, searchInput)
                        /\ (categoryFilter = ALL \/ item.category = categoryFilter))

\* the sum of the quantities
RECURSIVE TotalQuantity(_)
TotalQuantity(inv) ==
  IF inv = <<>> THEN 0 ELSE Head(inv).quantity.v + TotalQuantity(Tail(inv))

\* init, or a mutating handler, has run to its end: saveInventory of the
\* full script catches a failed write and the handler goes on, in the scan
\* script the exception ends the handler before it refreshes anything
Completed ==
  \/ last.op = "init" /\ phase = "ready"
  \/ last.wrote = "ok"
  \/ last.wrote = "failed" /\ script = "full"

\* C12: after init and after every completed mutating operation the stat
\* cards show the length of the collection, the sum of its quantities, the
\* number of its distinct categories and the number of its items with a
\* quantity below 5.
C12_StatsCurrent ==
  Completed =>
    /\ stats.totalItems = Digits(Len(inventory))
    /\ stats.totalQuantity = Digits(TotalQuantity(inventory))
    /\ stats.totalCategories =
         Digits(Cardinality({inventory[i].category : i \in DOMAIN inventory}))
    /\ stats.lowStockCount =
         Digits(Cardinality({i \in DOMAIN inventory : inventory[i].quantity.v < 5}))

\* an item of quantity 2 has been added to the empty collection
C12_Witness ==
  /\ last.op = "addItem" /\ last.wrote # "none"
  /\ Len(inventory) = 1
  /\ stats.totalQuantity = <<"2">> /\ stats.lowStockCount = <<"1">>

\* C13: in the full script editingItemId is null whenever a step leaves the
\* add/edit modal closed, and the add button leaves it null, so that a
\* submit from the add modal takes the addItem branch.
C13_AddModalCreates ==
  [][script = "full" =>
       /\ (~itemModal' => editingItemId' = NoId)
       /\ (ClickAddItemBtnFull => editingItemId' = NoId)]_vars

\* C14: in the scan script a detection during the cooldown changes neither
\* the inventory nor the stored content; an accepted detection adds 1 to the
\* one item that has the sku, or else puts one new item of quantity 1 at the
\* front; and whenever scanCooldown is set it is cleared again later, also
\* when the write failed.
C14_ScanCooldown ==
  /\ [][(scanCooldown /\ \E r \in Rand : ScanTimerFires(r)) =>
          inventory' = inventory /\ storage' = storage]_vars
  /\ [][(~scanCooldown /\ invKind = "array" /\ \E r \in Rand : ScanTimerFires(r)) =>
          LET k == findSku(inventory, Barcode(now))
          IN  IF k # 0
              THEN /\ Len(inventory') = Len(inventory)
                   /\ inventory'[k].quantity = Num(inventory[k].quantity.v + 1)
                   /\ \A j \in DOMAIN inventory : j # k => inventory'[j] = inventory[j]
              ELSE /\ Tail(inventory') = inventory
                   /\ Head(inventory').sku = Barcode(now)
                   /\ Head(inventory').quantity = Num(1)]_vars
  /\ (script = "scan" /\ scanCooldown) ~> ~scanCooldown

====
